---- MODULE Spec2Model ----
(***************************************************************************)
(* Model of src/src/config/palette.py: the PaletteState record, its three  *)
(* parsers (legacy, keyvalues text, DMX binary) and its two exporters.     *)
(*                                                                         *)
(* Identifiers (uuid.UUID) are scaled from 128 bits to ByteLen bytes; the  *)
(* text codec is real base-16 arithmetic over sequences of characters and  *)
(* the binary codec is real big-endian base-256 arithmetic over sequences  *)
(* of bytes.  A text is a sequence of one-character strings.               *)
(***************************************************************************)
EXTENDS Integers, Sequences, FiniteSets, TLC

VARIABLES LEGACY_CONF, data, version, self, ret

vars == <<LEGACY_CONF, data, version, self, ret>>

------------------------------------------------------------------------------
(* Bounds of the model. *)

\* The largest number of 'hidden' children / array entries in a drawn input.
MaxHidden == 3

\* Versions passed to the parsers are drawn from 0..MaxVersion.
MaxVersion == 2

------------------------------------------------------------------------------
(* Identifier codec: uuid.UUID(hex=...), UUID.hex, UUID(bytes=...), UUID.bytes *)

\* Number of bytes of an identifier (16 in uuid.UUID, scaled down).
ByteLen == 2

\* Number of hex digits of an identifier (32 in uuid.UUID).
HexLen == 2 * ByteLen

HexDigits == <<"0", "1", "2", "3", "4", "5", "6", "7",
               "8", "9", "a", "b", "c", "d", "e", "f">>

\* str.lower() on one character of the alphabet used here.
Lower(c) ==
    CASE c = "A" -> "a" [] c = "B" -> "b" [] c = "C" -> "c"
      [] c = "D" -> "d" [] c = "E" -> "e" [] c = "F" -> "f"
      [] OTHER -> c

IsHexChar(c) == \E i \in 1..16 : HexDigits[i] = Lower(c)

HexVal(c) == (CHOOSE i \in 1..16 : HexDigits[i] = Lower(c)) - 1

RECURSIVE Pow(_, _)
Pow(b, n) == IF n = 0 THEN 1 ELSE b * Pow(b, n - 1)

\* str.replace('-', '').
RECURSIVE RemoveDashes(_)
RemoveDashes(s) ==
    IF s = <<>> THEN <<>>
    ELSE IF Head(s) = "-" THEN RemoveDashes(Tail(s))
    ELSE <<Head(s)>> \o RemoveDashes(Tail(s))

\* str.strip('{}'): braces are removed from both ends only.
RECURSIVE LStripBraces(_)
LStripBraces(s) ==
    IF s # <<>> /\ Head(s) \in {"{", "}"} THEN LStripBraces(Tail(s)) ELSE s

RECURSIVE RStripBraces(_)
RStripBraces(s) ==
    IF s # <<>> /\ s[Len(s)] \in {"{", "}"}
    THEN RStripBraces(SubSeq(s, 1, Len(s) - 1))
    ELSE s

StripBraces(s) == RStripBraces(LStripBraces(s))

\* int(hex, 16) on a string of hex digits, most significant digit first.
RECURSIVE IntHex(_)
IntHex(s) ==
    IF s = <<>> THEN 0
    ELSE 16 * IntHex(SubSeq(s, 1, Len(s) - 1)) + HexVal(s[Len(s)])

\* UUID(hex=text): the identifier, or ValueError.
UUID_hex(text) ==
    LET hex == RemoveDashes(StripBraces(text))
    IN  IF Len(hex) # HexLen
        THEN [exc |-> "ValueError", int |-> 0]
        ELSE IF \E i \in 1..Len(hex) : ~IsHexChar(hex[i])
        THEN [exc |-> "ValueError", int |-> 0]
        ELSE [exc |-> "None", int |-> IntHex(hex)]

\* UUID.hex: '%032x' % int, fixed length, lower case, no separators.
hex_of(uuid) ==
    [i \in 1..HexLen |-> HexDigits[((uuid \div Pow(16, HexLen - i)) % 16) + 1]]

\* int.from_bytes(byt, 'big').
RECURSIVE IntBytes(_)
IntBytes(byt) ==
    IF byt = <<>> THEN 0
    ELSE 256 * IntBytes(SubSeq(byt, 1, Len(byt) - 1)) + byt[Len(byt)]

\* UUID(bytes=byt): the identifier, or ValueError when the length is wrong.
UUID_bytes(byt) ==
    IF Len(byt) # ByteLen
    THEN [exc |-> "ValueError", int |-> 0]
    ELSE [exc |-> "None", int |-> IntBytes(byt)]

\* UUID.bytes: int.to_bytes(16, 'big').
bytes_of(uuid) ==
    [i \in 1..ByteLen |-> (uuid \div Pow(256, ByteLen - i)) % 256]

------------------------------------------------------------------------------
(* Imported constants (consts.py). *)

\* The identifier of the built-in palette.
UUID_PORTAL2 == IntHex(<<"0", "a", "f", "1">>)

\* The identifiers that may never be hidden: an injected constant set.
FORCE_SHOWN == {UUID_PORTAL2}

------------------------------------------------------------------------------
(* The record: attrs.frozen class PaletteState. *)

\* PaletteState(selected, save_settings, hidden_defaults): the generated
\* __init__ stores its three arguments; the class declares no validator,
\* converter or __attrs_post_init__.
PaletteState(selected, save_settings, hidden_defaults) ==
    [selected |-> selected,
     save_settings |-> save_settings,
     hidden_defaults |-> hidden_defaults]

\* PaletteState(): the field defaults.
DefaultState == PaletteState(UUID_PORTAL2, FALSE, {})

\* The value of a call that raised.
None == "None"

------------------------------------------------------------------------------
(* Keyvalues text: a Property block is the sequence of its children, each   *)
(* a name and a string value.                                               *)

Property(name, value) == [name |-> name, value |-> value]

\* Property.find_all(key): the values of the children named key, in order.
RECURSIVE find_all(_, _)
find_all(block, key) ==
    IF block = <<>> THEN <<>>
    ELSE IF Head(block).name = key
         THEN <<Head(block).value>> \o find_all(Tail(block), key)
         ELSE find_all(Tail(block), key)

\* Whether block[key] finds a child (it raises a LookupError otherwise).
has_key(block, key) == find_all(block, key) # <<>>

\* block[key]: the value of the last child named key.
getitem(block, key) ==
    LET vals == find_all(block, key) IN vals[Len(vals)]

\* srctools BOOL_LOOKUP, keyed by the case-folded string.
TrueTexts == {<<"1">>, <<"y">>, <<"t">>, <<"y", "e", "s">>,
              <<"t", "r", "u", "e">>}

FalseTexts == {<<"0">>, <<"n">>, <<"f">>, <<"n", "o">>,
               <<"f", "a", "l", "s", "e">>}

\* srctools.conv_bool(val, default).
conv_bool(val, default) ==
    LET folded == [i \in 1..Len(val) |-> Lower(val[i])]
    IN  IF folded \in TrueTexts THEN TRUE
        ELSE IF folded \in FalseTexts THEN FALSE
        ELSE default

\* Property.bool(key, default): the default when the key is missing.
prop_bool(block, key, default) ==
    IF has_key(block, key) THEN conv_bool(getitem(block, key), default)
    ELSE default

\* srctools.bool_as_int(val): '1' or '0'.
bool_as_int(val) == IF val THEN <<"1">> ELSE <<"0">>

\* The version gate with >= written for ==.
MutVersionAtLeast(ver) == ver >= 1

\* parse_kv1, the version gate: assert version == 1.
kv1_version_ok(ver) == ver = 1

\* parse_kv1, the set comprehension over find_all('hidden'): UUID(hex=...)
\* of every child; a ValueError of any of them is not caught.
kv1_hidden(block) ==
    LET vals == find_all(block, "hidden")
        dec  == [i \in 1..Len(vals) |-> UUID_hex(vals[i])]
    IN  IF \E i \in 1..Len(vals) : dec[i].exc # "None"
        THEN [exc |-> "ValueError", set |-> {}]
        ELSE [exc |-> "None", set |-> {dec[i].int : i \in 1..Len(vals)}]

\* parse_kv1, the try block: UUID(hex=data['selected']), with UUID_PORTAL2
\* on LookupError (no such child) or ValueError (malformed text).
kv1_selected(block) ==
    IF ~has_key(block, "selected") THEN UUID_PORTAL2
    ELSE LET u == UUID_hex(getitem(block, "selected"))
         IN  IF u.exc = "None" THEN u.int ELSE UUID_PORTAL2

\* The filter of parse_kv1 without hidden -= FORCE_SHOWN.
MutKv1FilterKeepsForced(hidden, uuid) == hidden \ {uuid}

\* parse_kv1: hidden.discard(uuid); hidden -= FORCE_SHOWN.
kv1_filter(hidden, uuid) == (hidden \ {uuid}) \ FORCE_SHOWN

\* PaletteState.parse_kv1(data, version): the outcome of the call, with the
\* keys of data read before it ended.
parse_kv1(block, ver) ==
    IF ~kv1_version_ok(ver)
    THEN [exc |-> "AssertionError", val |-> None, reads |-> <<>>]
    ELSE LET hidden == kv1_hidden(block) IN
         IF hidden.exc # "None"
         THEN [exc |-> hidden.exc, val |-> None, reads |-> <<"hidden">>]
         ELSE LET uuid == kv1_selected(block) IN
              [exc |-> "None",
               val |-> PaletteState(uuid,
                                    prop_bool(block, "save_settings", FALSE),
                                    kv1_filter(hidden.set, uuid)),
               reads |-> <<"hidden", "selected", "save_settings">>]

\* PaletteState.export_kv1 with the hidden set iterated in the given order.
export_kv1(state, order) ==
    <<Property("selected", hex_of(state.selected)),
      Property("save_settings", bool_as_int(state.save_settings))>>
    \o [i \in 1..Len(order) |-> Property("hidden", hex_of(order[i]))]

------------------------------------------------------------------------------
(* DMX binary: an Element is a function from the names of its attributes to *)
(* their values: bytes, a boolean, an array of bytes.                       *)

\* parse_dmx, the first try block: UUID(bytes=data['selected'].val_bytes),
\* with UUID_PORTAL2 on LookupError or ValueError.
dmx_selected(elem) ==
    IF "selected" \notin DOMAIN elem THEN UUID_PORTAL2
    ELSE LET u == UUID_bytes(elem["selected"])
         IN  IF u.exc = "None" THEN u.int ELSE UUID_PORTAL2

\* The filter of parse_dmx without hidden.discard(uuid).
MutDmxFilterKeepsSelected(hidden, uuid) == hidden \ FORCE_SHOWN

\* parse_dmx: hidden.discard(uuid); hidden -= FORCE_SHOWN.
dmx_filter(hidden, uuid) == (hidden \ {uuid}) \ FORCE_SHOWN

\* The second try block of parse_dmx without its except KeyError clause.
MutDmxHiddenRequired(elem, uuid) ==
    IF "hidden" \notin DOMAIN elem
    THEN [exc |-> "KeyError", set |-> {}]
    ELSE LET arr == elem["hidden"]
             dec == [i \in 1..Len(arr) |-> UUID_bytes(arr[i])]
         IN  IF \E i \in 1..Len(arr) : dec[i].exc # "None"
             THEN [exc |-> "ValueError", set |-> {}]
             ELSE [exc |-> "None",
                   set |-> dmx_filter({dec[i].int : i \in 1..Len(arr)}, uuid)]

\* parse_dmx, the second try block: set() on KeyError, else UUID(bytes=...)
\* of every array entry (a ValueError there is not caught), then the filter.
dmx_hidden(elem, uuid) ==
    IF "hidden" \notin DOMAIN elem
    THEN [exc |-> "None", set |-> {}]
    ELSE LET arr == elem["hidden"]
             dec == [i \in 1..Len(arr) |-> UUID_bytes(arr[i])]
         IN  IF \E i \in 1..Len(arr) : dec[i].exc # "None"
             THEN [exc |-> "ValueError", set |-> {}]
             ELSE [exc |-> "None",
                   set |-> dmx_filter({dec[i].int : i \in 1..Len(arr)}, uuid)]

\* PaletteState.parse_dmx(data, version): version is not looked at;
\* data['save_settings'] is read outside any try block.
parse_dmx(elem, ver) ==
    LET uuid   == dmx_selected(elem)
        hidden == dmx_hidden(elem, uuid)
    IN  IF hidden.exc # "None"
        THEN [exc |-> hidden.exc, val |-> None,
              reads |-> <<"selected", "hidden">>]
        ELSE IF "save_settings" \notin DOMAIN elem
        THEN [exc |-> "KeyError", val |-> None,
              reads |-> <<"selected", "hidden", "save_settings">>]
        ELSE [exc |-> "None",
              val |-> PaletteState(uuid, elem["save_settings"], hidden.set),
              reads |-> <<"selected", "hidden", "save_settings">>]

\* PaletteState.export_dmx with the hidden set iterated in the given order.
export_dmx(state, order) ==
    [k \in {"selected", "save_settings", "hidden"} |->
        CASE k = "selected" -> bytes_of(state.selected)
          [] k = "save_settings" -> state.save_settings
          [] k = "hidden" -> [i \in 1..Len(order) |-> bytes_of(order[i])]]

------------------------------------------------------------------------------
(* The legacy store: BEE2_config.GEN_OPTS, a function from (section, key)   *)
(* to a string, read by parse_legacy through get_val and get_bool.          *)

KEY_UUID == <<"Last_Selected", "palette_uuid">>

KEY_SAVE == <<"General", "palette_save_settings">>

\* ConfigFile.get_val(section, key, default): the stored string, or the
\* default when the key is missing.
get_val(conf, key, default) ==
    IF key \in DOMAIN conf THEN conf[key] ELSE default

\* configparser's BOOLEAN_STATES, keyed by the lower-cased string.
ConfTrue == {<<"1">>, <<"o", "n">>, <<"y", "e", "s">>, <<"t", "r", "u", "e">>}

ConfFalse == {<<"0">>, <<"o", "f", "f">>, <<"n", "o">>,
              <<"f", "a", "l", "s", "e">>}

\* ConfigFile.get_bool(section, key): the stored boolean, or False when the
\* key is missing or its string is no boolean.
get_bool(conf, key) ==
    IF key \notin DOMAIN conf THEN FALSE
    ELSE LET low == [i \in 1..Len(conf[key]) |-> Lower(conf[key][i])]
         IN  low \in ConfTrue

\* The try block of parse_legacy falling back to the nil identifier.
MutLegacyZeroFallback(conf) ==
    LET u == UUID_hex(get_val(conf, KEY_UUID, <<>>))
    IN  IF u.exc = "None" THEN u.int ELSE 0

\* parse_legacy, the try block: UUID(hex=get_val(..., '')), with
\* UUID_PORTAL2 on ValueError.
legacy_selected(conf) ==
    LET u == UUID_hex(get_val(conf, KEY_UUID, <<>>))
    IN  IF u.exc = "None" THEN u.int ELSE UUID_PORTAL2

\* PaletteState.parse_legacy(conf): reads the module-level LEGACY_CONF, not
\* its argument; returns a dict with the one key ''.
parse_legacy(conf) ==
    [exc |-> "None",
     val |-> [k \in {""} |->
                 PaletteState(legacy_selected(conf),
                              get_bool(conf, KEY_SAVE),
                              {})],
     reads |-> <<>>]

------------------------------------------------------------------------------
(* The inputs the parsers are given.  An optional field is a sequence of    *)
(* length 0 (absent) or 1 (present).                                        *)

SeqsUpTo(S, n) == UNION {[1..k -> S] : k \in 0..n}

Opt(S) == {<<>>} \cup {<<x>> : x \in S}

\* Identifier texts: the built-in identifier in upper case, one with a dash,
\* one in braces, one with a non-hex character, one too short.
KvTexts == {<<"0", "A", "F", "1">>,
            <<"1", "2", "-", "3", "4">>,
            <<"{", "b", "0", "0", "c", "}">>,
            <<"1", "2", "g", "4">>,
            <<"1", "2", "3">>}

\* Strings of the 'save_settings' child.
SaveTexts == {<<"1">>, <<"0">>, <<"x">>}

\* A property block with an optional 'selected' and 'save_settings' child
\* and the given 'hidden' children.
Block(sel, save, hid) ==
    [i \in 1..Len(sel) |-> Property("selected", sel[i])]
    \o [i \in 1..Len(save) |-> Property("save_settings", save[i])]
    \o [i \in 1..Len(hid) |-> Property("hidden", hid[i])]

KvInputs ==
    {Block(sel, save, hid) :
        sel \in Opt(KvTexts), save \in Opt(SaveTexts),
        hid \in SeqsUpTo(KvTexts, MaxHidden)}

\* Identifier bytes: three identifiers, one too short, one too long.
DmxBytes == {<<10, 241>>, <<18, 52>>, <<176, 12>>, <<18>>, <<18, 52, 0>>}

\* An element with the attributes that are present.
Element(sel, save, hid) ==
    [k \in {n \in {"selected"} : sel # <<>>}
           \cup {n \in {"save_settings"} : save # <<>>}
           \cup {n \in {"hidden"} : hid # <<>>} |->
        CASE k = "selected" -> sel[1]
          [] k = "save_settings" -> save[1]
          [] k = "hidden" -> hid[1]]

DmxInputs ==
    {Element(sel, save, hid) :
        sel \in Opt(DmxBytes), save \in Opt(BOOLEAN),
        hid \in Opt(SeqsUpTo(DmxBytes, MaxHidden))}

\* Strings of the legacy 'palette_uuid' key, the empty string among them.
LegacyTexts == KvTexts \cup {<<>>, <<"0", "a", "f", "1">>}

\* Strings of the legacy 'palette_save_settings' key.
LegacyBools == {<<"1">>, <<"0">>, <<"O", "n">>, <<"x">>, <<>>}

Conf(uuid, save) ==
    [k \in {n \in {KEY_UUID} : uuid # <<>>}
           \cup {n \in {KEY_SAVE} : save # <<>>} |->
        IF k = KEY_UUID THEN uuid[1] ELSE save[1]]

LegacyStores ==
    {Conf(uuid, save) : uuid \in Opt(LegacyTexts), save \in Opt(LegacyBools)}

EmptyConf == Conf(<<>>, <<>>)

Versions == 0..MaxVersion

\* The identifiers records are constructed from.
IDs == {UUID_PORTAL2, IntHex(<<"1", "2", "3", "4">>),
        IntHex(<<"b", "0", "0", "c">>)}

Records ==
    {PaletteState(sel, save, hid) :
        sel \in IDs, save \in BOOLEAN, hid \in SUBSET IDs}

\* The orders in which a set can be iterated.
Perms(S) ==
    {f \in [1..Cardinality(S) -> S] :
        \A i, j \in 1..Cardinality(S) : i # j => f[i] # f[j]}

------------------------------------------------------------------------------
(* State.                                                                   *)
(*   LEGACY_CONF  the legacy store                                          *)
(*   data         the structured node at hand: read from the container or   *)
(*                returned by an export                                     *)
(*   version      the version the container gives for data                  *)
(*   self         the record at hand                                        *)
(*   ret          the last call: its name, arguments and outcome            *)

NoData == [fmt |-> "none", node |-> <<>>]

Call(op, arg, ver, res) ==
    [op |-> op, arg |-> arg, version |-> ver,
     exc |-> res.exc, val |-> res.val, reads |-> res.reads]

NoCall == Call("none", None, 0, [exc |-> "None", val |-> None, reads |-> <<>>])

Returned(val) == [exc |-> "None", val |-> val, reads |-> <<>>]

\* A container holding some text or binary node at some version, or a
\* legacy store and no structured node yet.
Init ==
    /\ self = DefaultState
    /\ ret = NoCall
    /\ \/ /\ LEGACY_CONF \in LegacyStores
          /\ data = NoData
          /\ version = 1
       \/ /\ LEGACY_CONF = EmptyConf
          /\ data \in {[fmt |-> "kv1", node |-> n] : n \in KvInputs}
                      \cup {[fmt |-> "dmx", node |-> n] : n \in DmxInputs}
          /\ version \in Versions

\* Nothing loaded, nothing stored: records are built in memory.
InitRecord ==
    /\ self = DefaultState
    /\ ret = NoCall
    /\ LEGACY_CONF = EmptyConf
    /\ data = NoData
    /\ version = 1

ParseLegacy ==
    /\ ret' = Call("parse_legacy", None, 0, parse_legacy(LEGACY_CONF))
    /\ UNCHANGED <<LEGACY_CONF, data, version, self>>

ParseKv1 ==
    /\ data.fmt = "kv1"
    /\ ret' = Call("parse_kv1", data.node, version,
                   parse_kv1(data.node, version))
    /\ UNCHANGED <<LEGACY_CONF, data, version, self>>

ParseDmx ==
    /\ data.fmt = "dmx"
    /\ ret' = Call("parse_dmx", data.node, version,
                   parse_dmx(data.node, version))
    /\ UNCHANGED <<LEGACY_CONF, data, version, self>>

\* A direct construction PaletteState(selected, save_settings, hidden).
Construct ==
    \E sel \in IDs, save \in BOOLEAN, hid \in SUBSET IDs :
        /\ self' = PaletteState(sel, save, hid)
        /\ ret' = Call("PaletteState", None, 0, Returned(self'))
        /\ UNCHANGED <<LEGACY_CONF, data, version>>

\* A functional update attrs.evolve(self, field=value): the constructor
\* called with one field replaced.
Evolve ==
    \E r \in {PaletteState(sel, self.save_settings, self.hidden_defaults) :
                 sel \in IDs}
             \cup {PaletteState(self.selected, save, self.hidden_defaults) :
                      save \in BOOLEAN}
             \cup {PaletteState(self.selected, self.save_settings, hid) :
                      hid \in SUBSET IDs} :
        /\ self' = r
        /\ ret' = Call("PaletteState", None, 0, Returned(r))
        /\ UNCHANGED <<LEGACY_CONF, data, version>>

\* self.export_kv1(): the returned block is what the container now holds,
\* at the implemented version.
ExportKv1 ==
    \E order \in Perms(self.hidden_defaults) :
        /\ data' = [fmt |-> "kv1", node |-> export_kv1(self, order)]
        /\ version' = 1
        /\ ret' = Call("export_kv1", None, 0, Returned(data'.node))
        /\ UNCHANGED <<LEGACY_CONF, self>>

\* self.export_dmx().
ExportDmx ==
    \E order \in Perms(self.hidden_defaults) :
        /\ data' = [fmt |-> "dmx", node |-> export_dmx(self, order)]
        /\ version' = 1
        /\ ret' = Call("export_dmx", None, 0, Returned(data'.node))
        /\ UNCHANGED <<LEGACY_CONF, self>>

Next == ParseLegacy \/ ParseKv1 \/ ParseDmx

Spec == Init /\ [][Next]_vars

NextRecord ==
    \/ Construct
    \/ Evolve
    \/ ExportKv1
    \/ ExportDmx
    \/ ParseKv1
    \/ ParseDmx
    \/ ParseLegacy

SpecRecord == InitRecord /\ [][NextRecord]_vars

------------------------------------------------------------------------------
(* Claims.                                                                  *)

Range(f) == {f[i] : i \in DOMAIN f}

ID_A == IntHex(<<"1", "2", "3", "4">>)

ID_B == IntHex(<<"b", "0", "0", "c">>)

\* The invariants of a record: selected and the force-shown identifiers are
\* not hidden.
RecordInvariant(r) ==
    /\ r.selected \notin r.hidden_defaults
    /\ FORCE_SHOWN \cap r.hidden_defaults = {}

\* The records a returned call produced.
ReturnedRecords ==
    IF ret.exc # "None" THEN {}
    ELSE IF ret.op = "parse_legacy" THEN Range(ret.val)
    ELSE IF ret.op \in {"parse_kv1", "parse_dmx"} THEN {ret.val}
    ELSE {}

\* C1: every record returned by parse_kv1, parse_dmx or parse_legacy has its
\* selected identifier and every force-shown identifier outside
\* hidden_defaults, also when the default identifier was substituted.
C1_ParsedRecordsSatisfyInvariants ==
    \A r \in ReturnedRecords : RecordInvariant(r)

\* parse_dmx returned for an input whose 'selected' is malformed and whose
\* 'hidden' array names the substituted default and another identifier.
C1_Witness ==
    /\ ret.op = "parse_dmx"
    /\ ret.exc = "None"
    /\ "selected" \in DOMAIN ret.arg
    /\ UUID_bytes(ret.arg["selected"]).exc = "ValueError"
    /\ "hidden" \in DOMAIN ret.arg
    /\ bytes_of(UUID_PORTAL2) \in Range(ret.arg["hidden"])
    /\ ret.val.selected = UUID_PORTAL2
    /\ ret.val.hidden_defaults = {ID_A}

\* The 'hidden' entries of the parsed element all decode.
DmxHiddenWellFormed(elem) ==
    "hidden" \in DOMAIN elem =>
        \A b \in Range(elem["hidden"]) : UUID_bytes(b).exc = "None"

\* C2: parse_dmx called with a version other than 1 always fails with the
\* version-mismatch error and returns no record.  Stated on the elements
\* that carry 'save_settings' and a decodable 'hidden', on which no other
\* error of the call can come before the version error.
C2_DmxVersionGate ==
    (ret.op = "parse_dmx" /\ ret.version # 1
        /\ "save_settings" \in DOMAIN ret.arg
        /\ DmxHiddenWellFormed(ret.arg))
        => (ret.exc = "AssertionError" /\ ret.val = None)

\* C3: parse_kv1 called with a version other than 1 fails with the
\* version-mismatch error before reading any key of its input, and returns
\* no record, whatever the input holds.
C3_Kv1VersionGate ==
    (ret.op = "parse_kv1" /\ ret.version # 1)
        => (ret.exc = "AssertionError" /\ ret.reads = <<>> /\ ret.val = None)

\* parse_kv1 was called at version 2 on a block whose 'hidden' child would
\* raise ValueError at version 1.
C3_Witness ==
    /\ ret.op = "parse_kv1"
    /\ ret.version = 2
    /\ \E t \in Range(find_all(ret.arg, "hidden")) :
           UUID_hex(t).exc = "ValueError"
    /\ ret.exc = "AssertionError"

\* C4: for every record r that can be constructed and every iteration order
\* of its hidden set, parse_kv1(export_kv1(r), 1) = r and
\* parse_dmx(export_dmx(r), 1) = r.
C4_RoundTrip ==
    \A r \in Records : \A order \in Perms(r.hidden_defaults) :
        /\ (ret.op = "parse_kv1" /\ ret.version = 1
              /\ ret.arg = export_kv1(r, order))
               => (ret.exc = "None" /\ ret.val = r)
        /\ (ret.op = "parse_dmx" /\ ret.version = 1
              /\ ret.arg = export_dmx(r, order))
               => (ret.exc = "None" /\ ret.val = r)

\* C5: at version 1, parse_kv1 and parse_dmx never raise a decode error
\* (ValueError) on a malformed identifier, be it 'selected' or a 'hidden'
\* entry: the call returns a record.
C5_NoDecodeErrorSurfaces ==
    (ret.op \in {"parse_kv1", "parse_dmx"} /\ ret.version = 1)
        => ret.exc # "ValueError"

\* C6: parse_dmx at version 1 returns a record when a field is missing: a
\* missing 'selected' gives UUID_PORTAL2 and a missing 'save_settings' gives
\* False.
C6_DmxMissingFieldsDefault ==
    (ret.op = "parse_dmx" /\ ret.version = 1 /\ DmxHiddenWellFormed(ret.arg))
        => /\ ret.exc = "None"
           /\ "selected" \notin DOMAIN ret.arg
                  => ret.val.selected = UUID_PORTAL2
           /\ "save_settings" \notin DOMAIN ret.arg
                  => ret.val.save_settings = FALSE

\* C7: parse_legacy never raises: it returns a mapping with the one key '',
\* whose record has no hidden identifiers, the stored identifier as selected
\* when the stored text decodes and UUID_PORTAL2 otherwise (key missing,
\* empty, not hex), and save_settings False when the key is missing or no
\* boolean.
C7_LegacyNeverFails ==
    ret.op = "parse_legacy" =>
        /\ ret.exc = "None"
        /\ DOMAIN ret.val = {""}
        /\ ret.val[""].hidden_defaults = {}
        /\ \A x \in IDs :
               (KEY_UUID \in DOMAIN LEGACY_CONF
                   /\ LEGACY_CONF[KEY_UUID] = hex_of(x))
                   => ret.val[""].selected = x
        /\ (KEY_UUID \notin DOMAIN LEGACY_CONF
               \/ UUID_hex(LEGACY_CONF[KEY_UUID]).exc = "ValueError")
               => ret.val[""].selected = UUID_PORTAL2
        /\ (KEY_UUID \in DOMAIN LEGACY_CONF
               /\ UUID_hex(LEGACY_CONF[KEY_UUID]).exc = "None")
               => ret.val[""].selected = UUID_hex(LEGACY_CONF[KEY_UUID]).int
        /\ (KEY_SAVE \notin DOMAIN LEGACY_CONF
               \/ LEGACY_CONF[KEY_SAVE] \in {<<"x">>, <<>>})
               => ret.val[""].save_settings = FALSE

\* parse_legacy returned the default record for palette_uuid = "" and no
\* palette_save_settings key.
C7_Witness ==
    /\ ret.op = "parse_legacy"
    /\ DOMAIN LEGACY_CONF = {KEY_UUID}
    /\ LEGACY_CONF[KEY_UUID] = <<>>
    /\ ret.val[""] = DefaultState

\* C8: after any sequence of constructions and functional updates the record
\* at hand has selected and the force-shown identifiers outside
\* hidden_defaults: construction removes them.
C8_ConstructionEnforcesInvariants == RecordInvariant(self)

\* C9: parse_dmx at version 1 on an element with 'selected' and
\* 'save_settings' but no 'hidden' attribute returns a record whose
\* hidden_defaults is empty.
C9_DmxAbsentHiddenIsEmpty ==
    (ret.op = "parse_dmx" /\ ret.version = 1
        /\ {"selected", "save_settings"} \subseteq DOMAIN ret.arg
        /\ "hidden" \notin DOMAIN ret.arg)
        => (ret.exc = "None" /\ ret.val.hidden_defaults = {})

\* parse_dmx returned for an element with a well-formed 'selected', a
\* 'save_settings' and no 'hidden'.
C9_Witness ==
    /\ ret.op = "parse_dmx"
    /\ ret.version = 1
    /\ DOMAIN ret.arg = {"selected", "save_settings"}
    /\ ret.arg["selected"] = bytes_of(ID_A)
    /\ ret.exc = "None"
    /\ ret.val = PaletteState(ID_A, ret.arg["save_settings"], {})

\* The 'hidden' children of the parsed block all decode.
KvHiddenWellFormed(block) ==
    \A t \in Range(find_all(block, "hidden")) : UUID_hex(t).exc = "None"

\* C10: for a text input at version 1 whose 'hidden' children all decode,
\* parse_kv1 returns a record whose hidden_defaults is exactly the set of
\* the decoded 'hidden' children minus the resolved selected identifier
\* minus the force-shown set, and the resolved selected identifier is
\* UUID_PORTAL2 when 'selected' is missing or malformed.
C10_Kv1HiddenIsFilteredSet ==
    (ret.op = "parse_kv1" /\ ret.version = 1 /\ KvHiddenWellFormed(ret.arg))
        => /\ ret.exc = "None"
           /\ (~has_key(ret.arg, "selected")
                  \/ UUID_hex(getitem(ret.arg, "selected")).exc = "ValueError")
                  => ret.val.selected = UUID_PORTAL2
           /\ ret.val.hidden_defaults
                  = {UUID_hex(t).int : t \in Range(find_all(ret.arg, "hidden"))}
                        \ ({ret.val.selected} \cup FORCE_SHOWN)

\* parse_kv1 returned hidden_defaults = {B} for selected = A with the hidden
\* children A, a force-shown identifier and B.
C10_Witness ==
    /\ ret.op = "parse_kv1"
    /\ ret.version = 1
    /\ ret.exc = "None"
    /\ ret.val.selected = ID_A
    /\ {UUID_hex(t).int : t \in Range(find_all(ret.arg, "hidden"))}
           = {ID_A, UUID_PORTAL2, ID_B}
    /\ KvHiddenWellFormed(ret.arg)
    /\ ret.val.hidden_defaults = {ID_B}

====
